---- MODULE Spec2Model ----
(***************************************************************************)
(* Model of src/main.py: the record reconstruction                         *)
(* (parse_analysis_article and its helpers), the queries on its table,     *)
(* the cache and the webhook.                                              *)
(*                                                                         *)
(* A line is a sequence of characters.  Characters are one-element         *)
(* strings; the fixed literals of the source that are only ever compared   *)
(* as a whole are one character each:                                      *)
(*   "T"  the venue token `track` the section pattern is built from        *)
(*   "I"  the phrase "データ不足の為解析不可"                              *)
(*   "H"  the column header "馬名 勝率 爆走"                               *)
(* and the rating symbols are written in ASCII:                            *)
(*   "@" = ◎   "o" = ○   "^" = ▲   "v" = △   "*" = ●                       *)
(* "NBSP", "FWSP", "FWCOMMA" are U+00A0, U+3000 and U+FF0C.                *)
(***************************************************************************)
EXTENDS Integers, Sequences, FiniteSets, TLC

\* ------------------------------------------------------------------ bounds
\* number of lines of one document
MaxLines == 5

\* ------------------------------------------------------------- characters
MARKS == {"@", "o", "^", "v", "*"}

Digits == {"0", "1", "2", "3", "4", "5", "6", "7", "8", "9"}

\* what the regex class \s and str.strip() take for whitespace
Whitespace == {" ", "NBSP", "FWSP", "TAB"}

\* what the regex class \w takes for a word character (for \b)
IsWord(ch) == ch \notin (MARKS \cup Whitespace \cup {",", "FWCOMMA"})

\* Python's None, for Optional[int]
None == -1

DigitVal(ch) ==
  CASE ch = "0" -> 0 [] ch = "1" -> 1 [] ch = "2" -> 2 [] ch = "3" -> 3
    [] ch = "4" -> 4 [] ch = "5" -> 5 [] ch = "6" -> 6 [] ch = "7" -> 7
    [] ch = "8" -> 8 [] ch = "9" -> 9

\* int(s) for a string of decimal digits
RECURSIVE int(_)
int(s) ==
  IF s = <<>> THEN 0
  ELSE int(SubSeq(s, 1, Len(s) - 1)) * 10 + DigitVal(s[Len(s)])

\* ---------------------------------------------------------------- strings
\* s[i:] with i counted from 1
From(s, i) == SubSeq(s, i, Len(s))

\* s[:n]
Take(s, n) == SubSeq(s, 1, IF n < Len(s) THEN (IF n < 0 THEN 0 ELSE n) ELSE Len(s))

RECURSIVE lstrip(_)
lstrip(s) ==
  IF s # <<>> /\ s[1] \in Whitespace THEN lstrip(Tail(s)) ELSE s

RECURSIVE rstrip(_)
rstrip(s) ==
  IF s # <<>> /\ s[Len(s)] \in Whitespace
  THEN rstrip(SubSeq(s, 1, Len(s) - 1)) ELSE s

\* str.strip()
strip(s) == rstrip(lstrip(s))

\* s.replace(a, b) for single characters
replace(s, a, b) == [i \in 1..Len(s) |-> IF s[i] = a THEN b ELSE s[i]]

\* re.sub(r"\s+", " ", s)
RECURSIVE collapse(_)
collapse(s) ==
  IF s = <<>> THEN <<>>
  ELSE IF s[1] \in Whitespace
       THEN <<" ">> \o collapse(lstrip(s))
       ELSE <<s[1]>> \o collapse(Tail(s))

\* normalize_line without the collapsing of whitespace runs
normalize_line_NoCollapse(s) ==
  strip(replace(replace(replace(s, "NBSP", " "), "FWSP", " "), "FWCOMMA", ","))

normalize_line(s) ==
  strip(collapse(replace(replace(replace(s, "NBSP", " "), "FWSP", " "),
                         "FWCOMMA", ",")))

IsMark(ch) == ch \in MARKS
NotMark(ch) == ch \notin MARKS
NotBlank(ch) == ch # " "

extract_marks_from_text(s) == SelectSeq(s, IsMark)

\* "".join(ch for ch in s if ch not in MARKS)
without_marks(s) == SelectSeq(s, NotMark)

\* " ".join(parts)
RECURSIVE join(_)
join(parts) ==
  IF parts = <<>> THEN <<>>
  ELSE IF Len(parts) = 1 THEN parts[1]
  ELSE parts[1] \o <<" ">> \o join(Tail(parts))

Contains(s, ch) == \E i \in 1..Len(s) : s[i] = ch

\* number of consecutive characters of class C from position i on
RECURSIVE Run(_, _, _)
Run(s, i, C) ==
  IF i <= Len(s) /\ s[i] \in C THEN 1 + Run(s, i + 1, C) ELSE 0

\* ------------------------------------------------------- the three patterns
\* sec_re = ^<track>\s*(\d{1,2})\s*R\b : the position of the "R" for a
\* capture of nd digits, 0 when the pattern does not match that way
SecR(line, nd) ==
  IF /\ Len(line) >= 1 /\ line[1] = "T"
     /\ Run(line, 2 + Run(line, 2, Whitespace), Digits) >= nd
  THEN LET p == 2 + Run(line, 2, Whitespace)
           q == p + nd + Run(line, p + nd, Whitespace)
       IN IF /\ q <= Len(line) /\ line[q] = "R"
             /\ (q = Len(line) \/ ~IsWord(line[q + 1]))
          THEN q ELSE 0
  ELSE 0

sec_match(line) == SecR(line, 2) > 0 \/ SecR(line, 1) > 0

\* int(sm.group(1)); the greedy \d{1,2} takes two digits when that matches
sec_group1(line) ==
  LET p == 2 + Run(line, 2, Whitespace)
  IN IF SecR(line, 2) > 0 THEN int(SubSeq(line, p, p + 1))
     ELSE int(SubSeq(line, p, p))

\* re.fullmatch(r"\d{1,2}", line)
num_fullmatch(line) ==
  Len(line) \in 1..2 /\ \A i \in 1..Len(line) : line[i] \in Digits

\* ^(\d{1,2})\s*,?\s*(.+)$ : the ways the pattern can match, as
\* <<digits, blanks, comma, blanks>> consumed before group 2
NumRestWays(line) ==
  LET blanks == 0..Len(SelectSeq(line, LAMBDA ch : ch \in Whitespace))
  IN { t \in (1..2) \X blanks \X (0..1) \X blanks :
         /\ Run(line, 1, Digits) >= t[1]
         /\ Run(line, t[1] + 1, Whitespace) >= t[2]
         /\ t[3] = 1 => (/\ t[1] + t[2] + 1 <= Len(line)
                         /\ line[t[1] + t[2] + 1] = ",")
         /\ Run(line, t[1] + t[2] + t[3] + 1, Whitespace) >= t[4]
         /\ t[1] + t[2] + t[3] + t[4] < Len(line) }

\* the order in which the backtracking matcher tries them: every quantifier
\* is greedy, the leftmost one is given up last
Prefers(t, u) ==
  \/ t[1] > u[1]
  \/ t[1] = u[1] /\ t[2] > u[2]
  \/ t[1] = u[1] /\ t[2] = u[2] /\ t[3] > u[3]
  \/ t[1] = u[1] /\ t[2] = u[2] /\ t[3] = u[3] /\ t[4] >= u[4]

num_rest_match(line) == NumRestWays(line) # {}

NumRestWay(line) ==
  CHOOSE t \in NumRestWays(line) : \A u \in NumRestWays(line) : Prefers(t, u)

\* int(m.group(1))
num_rest_group1(line) == int(SubSeq(line, 1, NumRestWay(line)[1]))

\* m.group(2)
num_rest_group2(line) ==
  LET t == NumRestWay(line) IN From(line, t[1] + t[2] + t[3] + t[4] + 1)

\* ms[:n] with Python's meaning of a negative n
slice_to(ms, n) ==
  IF n >= 0 THEN SubSeq(ms, 1, IF n < Len(ms) THEN n ELSE Len(ms))
  ELSE SubSeq(ms, 1, IF Len(ms) + n > 0 THEN Len(ms) + n ELSE 0)

\* ------------------------------------------------------------------- state
VARIABLES
  races,               \* Dict[int, List[dict]]
  current_r,           \* Optional[int]
  pending_no,          \* Optional[int]
  pending_name_parts,  \* List[str]
  pending_marks,       \* List[str]
  line,                \* the loop variable: the line read last
  idx,                 \* number of lines read
  pc,                  \* "loop", "done" (returned) or "raised" (exception)
  seen_marks,          \* history: every rating symbol of the pending record's lines
  voided,              \* history: races voided right after their header
  reopened,            \* history: voided races whose header was read again
  prev,                \* history: the locals before the last step
  glue,                \* the glued/split comparison (SpecGlue only)
  twice,               \* the repeated parse of one document (SpecTwice only)
  norm,                \* normalize_line applied to a string (SpecNorm only)
  query,               \* the queries on a table (SpecQuery only)
  split,               \* split_for_line applied to a text (SpecSplit only)
  cache,               \* _cache: key -> (timestamp, data)     (SpecHook only)
  now,                 \* time.time()                           (SpecHook only)
  env,                 \* the two environment variables         (SpecHook only)
  hook,                \* the webhook request being handled     (SpecHook only)
  probe                \* the cache operations so far           (SpecCache only)

vars == <<races, current_r, pending_no, pending_name_parts, pending_marks,
          line, idx, pc, seen_marks, voided, reopened, prev, glue, twice, norm,
          query, split, cache, now, env, hook, probe>>

\* the variables of the other specifications, which the parse leaves alone
hook_vars == <<cache, now, env, hook, probe>>

beside_parser == <<glue, twice, norm, query, split, hook_vars>>

\* the locals of parse_analysis_article as one value
St == [races |-> races, current_r |-> current_r, pending_no |-> pending_no,
       pending_name_parts |-> pending_name_parts,
       pending_marks |-> pending_marks, raised |-> FALSE]

\* races = {}, current_r = None, pending_* empty
St0 == [races |-> [r \in {} |-> <<>>], current_r |-> None, pending_no |-> None,
        pending_name_parts |-> <<>>, pending_marks |-> <<>>, raised |-> FALSE]

\* reset_pending that forgets to clear the marks
reset_pending_KeepMarks(s) ==
  [s EXCEPT !.pending_no = None, !.pending_name_parts = <<>>]

\* pending_no = None; pending_name_parts = []; pending_marks = []
reset_pending(s) ==
  [s EXCEPT !.pending_no = None, !.pending_name_parts = <<>>,
            !.pending_marks = <<>>]

\* pending_record with the two rating columns exchanged
pending_record_Swapped(s) ==
  [no |-> s.pending_no,
   name |-> normalize_line(join(s.pending_name_parts)),
   win |-> IF Len(s.pending_marks) >= 2 THEN s.pending_marks[2] ELSE "",
   bakusou |-> IF Len(s.pending_marks) >= 1 THEN s.pending_marks[1] ELSE ""]

\* the dict built from the pending buffer
pending_record(s) ==
  [no |-> s.pending_no,
   name |-> normalize_line(join(s.pending_name_parts)),
   win |-> IF Len(s.pending_marks) >= 1 THEN s.pending_marks[1] ELSE "",
   bakusou |-> IF Len(s.pending_marks) >= 2 THEN s.pending_marks[2] ELSE ""]

\* races_append that puts the record in front
races_append_Front(s, rec) ==
  IF s.current_r \notin DOMAIN s.races THEN [s EXCEPT !.raised = TRUE]
  ELSE [s EXCEPT !.races[s.current_r] = <<rec>> \o @]

\* races[current_r].append(rec); a missing key raises KeyError
races_append(s, rec) ==
  IF s.current_r \notin DOMAIN s.races THEN [s EXCEPT !.raised = TRUE]
  ELSE [s EXCEPT !.races[s.current_r] = Append(@, rec)]

\* flush_pending without the test for an empty name
flush_pending_NoNameTest(s) ==
  IF s.current_r = None THEN reset_pending(s)
  ELSE IF s.pending_no = None THEN s
  ELSE LET t == races_append(s, pending_record(s))
       IN IF t.raised THEN t ELSE reset_pending(t)

flush_pending(s) ==
  IF s.current_r = None THEN reset_pending(s)
  ELSE IF s.pending_no = None THEN s
  ELSE IF normalize_line(join(s.pending_name_parts)) = <<>> THEN reset_pending(s)
  ELSE LET t == races_append(s, pending_record(s))
       IN IF t.raised THEN t ELSE reset_pending(t)

\* races.setdefault(r, [])
setdefault(rs, r) ==
  IF r \in DOMAIN rs THEN rs
  ELSE [x \in DOMAIN rs \cup {r} |-> IF x = r THEN <<>> ELSE rs[x]]

\* races.pop(r, None)
pop(rs, r) == [x \in DOMAIN rs \ {r} |-> rs[x]]

\* extend without the cap of two
extend_marks_NoCap(pm, ms) == pm \o ms

\* pending_marks.extend(ms[: 2 - len(pending_marks)])
extend_marks(pm, ms) == pm \o slice_to(ms, 2 - Len(pm))

\* ------------------------------------------------------ the loop body
\* Branch without the test `if current_r is None: continue`
Branch_NoClosedTest(s, l) ==
  IF sec_match(l) THEN "section"
  ELSE IF Contains(l, "I") /\ s.current_r # None THEN "void"
  ELSE IF l = <<"H">> THEN "colhdr"
  ELSE IF num_fullmatch(l) THEN "number"
  ELSE IF num_rest_match(l) THEN "numrest"
  ELSE IF s.pending_no = None THEN "noise"
  ELSE IF /\ extract_marks_from_text(l) # <<>>
          /\ normalize_line(extract_marks_from_text(l))
               = normalize_line(SelectSeq(l, NotBlank))
       THEN "marks"
  ELSE IF extract_marks_from_text(l) # <<>> THEN "mixed"
  ELSE "name"

\* which branch of the loop body a line takes, in the order of the tests
Branch(s, l) ==
  IF sec_match(l) THEN "section"
  ELSE IF s.current_r = None THEN "closed"
  ELSE IF Contains(l, "I") THEN "void"
  ELSE IF l = <<"H">> THEN "colhdr"
  ELSE IF num_fullmatch(l) THEN "number"
  ELSE IF num_rest_match(l) THEN "numrest"
  ELSE IF s.pending_no = None THEN "noise"
  ELSE IF /\ extract_marks_from_text(l) # <<>>
          /\ normalize_line(extract_marks_from_text(l))
               = normalize_line(SelectSeq(l, NotBlank))
       THEN "marks"
  ELSE IF extract_marks_from_text(l) # <<>> THEN "mixed"
  ELSE "name"

\* on_section that opens the new section before it flushes
on_section_FlushLate(s, l) ==
  LET o == [s EXCEPT !.current_r = sec_group1(l),
                     !.races = setdefault(s.races, sec_group1(l))]
  IN IF s.current_r # None THEN flush_pending(o) ELSE o

on_section(s, l) ==
  LET t == IF s.current_r # None THEN flush_pending(s) ELSE s
  IN IF t.raised THEN t
     ELSE [t EXCEPT !.current_r = sec_group1(l),
                    !.races = setdefault(t.races, sec_group1(l))]

\* on_void that empties the race's list and keeps the key
on_void_KeepKey(s) ==
  reset_pending([s EXCEPT !.races[s.current_r] = <<>>, !.current_r = None])

\* on_void that leaves the pending buffer as it is
on_void_KeepPending(s) ==
  [s EXCEPT !.races = pop(s.races, s.current_r), !.current_r = None]

\* on_void that leaves the section open
on_void_StayOpen(s) ==
  reset_pending([s EXCEPT !.races = pop(s.races, s.current_r)])

on_void(s) ==
  reset_pending([s EXCEPT !.races = pop(s.races, s.current_r),
                          !.current_r = None])

\* on_number that drops the pending record instead of flushing it
on_number_NoFlush(s, l) == [reset_pending(s) EXCEPT !.pending_no = int(l)]

on_number(s, l) ==
  LET t == flush_pending(s)
  IN IF t.raised THEN t ELSE [t EXCEPT !.pending_no = int(l)]

\* on_numrest that keeps the rating symbols in the name
on_numrest_KeepSymbols(s, l) ==
  LET t    == flush_pending(s)
      rest == strip(num_rest_group2(l))
      ms   == extract_marks_from_text(rest)
  IN IF t.raised THEN t
     ELSE [t EXCEPT !.pending_no = num_rest_group1(l),
                    !.pending_marks = extend_marks(@, ms),
                    !.pending_name_parts = Append(@, rest)]

on_numrest(s, l) ==
  LET t    == flush_pending(s)
      rest == strip(num_rest_group2(l))
      ms   == extract_marks_from_text(rest)
      rest2 == strip(without_marks(rest))
  IN IF t.raised THEN t
     ELSE IF ms # <<>>
     THEN [t EXCEPT !.pending_no = num_rest_group1(l),
                    !.pending_marks = extend_marks(@, ms),
                    !.pending_name_parts =
                       IF rest2 # <<>> THEN Append(@, rest2) ELSE @]
     ELSE [t EXCEPT !.pending_no = num_rest_group1(l),
                    !.pending_name_parts = Append(@, rest)]

on_marks(s, l) ==
  [s EXCEPT !.pending_marks = extend_marks(@, extract_marks_from_text(l))]

on_mixed(s, l) ==
  LET name_part == strip(without_marks(l))
  IN [s EXCEPT !.pending_marks = extend_marks(@, extract_marks_from_text(l)),
               !.pending_name_parts =
                  IF name_part # <<>> THEN Append(@, name_part) ELSE @]

on_name(s, l) == [s EXCEPT !.pending_name_parts = Append(@, l)]

\* one iteration of `for line in lines`
loop_body(s, l) ==
  LET b == Branch(s, l)
  IN CASE b = "section" -> on_section(s, l)
       [] b = "void"    -> on_void(s)
       [] b = "number"  -> on_number(s, l)
       [] b = "numrest" -> on_numrest(s, l)
       [] b = "marks"   -> on_marks(s, l)
       [] b = "mixed"   -> on_mixed(s, l)
       [] b = "name"    -> on_name(s, l)
       [] OTHER         -> s

\* after the loop: if current_r is not None: flush_pending()
end_of_input(s) == IF s.current_r # None THEN flush_pending(s) ELSE s

\* the loop over a whole list of lines, and the final flush
RECURSIVE run_lines(_, _)
run_lines(s, ls) ==
  IF ls = <<>> \/ s.raised THEN s
  ELSE run_lines(loop_body(s, ls[1]), Tail(ls))

\* the table parse_analysis_article returns for the normalized lines ls
parse_lines(ls) == end_of_input(run_lines(St0, ls))

\* ------------------------------------------------------------------ inputs
\* the normalized, non-empty lines a document is made of
Lines ==
  { <<"T", "1", "R">>,                      \* header of race 1
    <<"T", " ", "0", "2", "R">>,            \* header of race 2
    <<"T", "1", "R", " ", "I">>,            \* header that carries the phrase
    <<"T", "1", "R", "a">>,                 \* no word boundary: not a header
    <<"I">>,                                \* the insufficiency marker
    <<"3", "I">>,                           \* the phrase after a number
    <<"H">>,                                \* the column header
    <<"5">>, <<"0", "7">>,                  \* number lines
    <<"7", "a", "@">>,                      \* number, name, symbol glued
    <<"3", ",", "b", "^", "o", "@">>,       \* number, comma, name, 3 symbols
    <<"1", "@", "o">>,                      \* number and symbols, no name
    <<"@">>, <<"o", " ", "^">>,             \* symbols only
    <<"b", "@", "c">>,                      \* symbols inside a name
    <<"a">> }                               \* plain text

\* the value of `glue` outside the glued/split comparison
NoGlue == [pc |-> "off"]

\* the value of `twice` outside the repeated parse
NoTwice == [run |-> 0]

\* the value of `norm` outside the normalizer's specification
NoNorm == [pc |-> "off"]

\* the value of `split` outside the splitter's specification
NoSplit == [pc |-> "off"]

\* the value of `query` outside the queries' specification
NoQuery == [pc |-> "off"]

\* the values of the webhook's variables outside its specification
HookIdle ==
  /\ cache = [k \in {} |-> <<>>]
  /\ now = 0
  /\ env = [pc |-> "off"]
  /\ hook = [pc |-> "off"]
  /\ probe = [op |-> "off"]

\* ------------------------------------------------------------------ actions
Init ==
  /\ races = St0.races
  /\ current_r = St0.current_r
  /\ pending_no = St0.pending_no
  /\ pending_name_parts = St0.pending_name_parts
  /\ pending_marks = St0.pending_marks
  /\ line = <<>>
  /\ idx = 0
  /\ pc = "loop"
  /\ seen_marks = <<>>
  /\ voided = {}
  /\ reopened = {}
  /\ prev = St0
  /\ glue = NoGlue
  /\ twice = NoTwice
  /\ norm = NoNorm
  /\ query = NoQuery
  /\ split = NoSplit
  /\ HookIdle

\* the locals after a step; an exception ends the run
Load(s, to) ==
  /\ races' = s.races
  /\ current_r' = s.current_r
  /\ pending_no' = s.pending_no
  /\ pending_name_parts' = s.pending_name_parts
  /\ pending_marks' = s.pending_marks
  /\ pc' = IF s.raised THEN "raised" ELSE to

\* the history variables after line l took branch b
Observe(b, l) ==
  /\ seen_marks' =
       CASE b \in {"section", "void", "number"} -> <<>>
         [] b = "numrest" -> extract_marks_from_text(num_rest_group2(l))
         [] b \in {"marks", "mixed"} -> seen_marks \o extract_marks_from_text(l)
         [] OTHER -> seen_marks
  /\ voided' = IF b = "void" /\ idx > 0 /\ sec_match(line)
               THEN voided \cup {current_r} ELSE voided
  /\ reopened' = IF b = "section" /\ sec_group1(l) \in voided
                 THEN reopened \cup {sec_group1(l)} ELSE reopened
  /\ prev' = St

\* one iteration of the loop, for the line l
Read(l) ==
  /\ pc = "loop"
  /\ idx < MaxLines
  /\ Load(loop_body(St, l), "loop")
  /\ line' = l
  /\ idx' = idx + 1
  /\ Observe(Branch(St, l), l)
  /\ UNCHANGED beside_parser

SectionHeader == \E l \in Lines : Branch(St, l) = "section" /\ Read(l)
NoSectionOpen == \E l \in Lines : Branch(St, l) = "closed" /\ Read(l)
SectionVoid   == \E l \in Lines : Branch(St, l) = "void" /\ Read(l)
ColumnHeader  == \E l \in Lines : Branch(St, l) = "colhdr" /\ Read(l)
NumberLine    == \E l \in Lines : Branch(St, l) = "number" /\ Read(l)
NumberRest    == \E l \in Lines : Branch(St, l) = "numrest" /\ Read(l)
MarksLine     == \E l \in Lines : Branch(St, l) = "marks" /\ Read(l)
MixedLine     == \E l \in Lines : Branch(St, l) = "mixed" /\ Read(l)
NameLine      == \E l \in Lines : Branch(St, l) = "name" /\ Read(l)
NoiseLine     == \E l \in Lines : Branch(St, l) = "noise" /\ Read(l)

\* the lines are exhausted: the final flush and `return races`
EndOfInput ==
  /\ pc = "loop"
  /\ Load(end_of_input(St), "done")
  /\ seen_marks' = <<>>
  /\ prev' = St
  /\ UNCHANGED <<line, idx, voided, reopened>>
  /\ UNCHANGED beside_parser

Next ==
  \/ SectionHeader
  \/ NoSectionOpen
  \/ SectionVoid
  \/ ColumnHeader
  \/ NumberLine
  \/ NumberRest
  \/ MarksLine
  \/ MixedLine
  \/ NameLine
  \/ NoiseLine
  \/ EndOfInput

Spec == Init /\ [][Next]_vars

\* the locals of the parser
locals == <<races, current_r, pending_no, pending_name_parts, pending_marks>>

\* --------------------------------------- one entry, glued or split
\* the header that opens the section the entry is written in
GlueHeader == <<"T", "1", "R">>

\* horse numbers as written: 1 or 2 digits
GlueNumbers == { <<"5">>, <<"0", "7">>, <<"1", "2">> }

\* names: normalized, non-empty, no rating symbol, not starting with a digit
\* or a comma
GlueNames ==
  { <<"a">>, <<"a", " ", "b">>, <<"a", "1">>, <<"a", ",">>, <<"R">>,
    <<"T">>, <<"T", "1", "R", "a">>, <<"H", "a">>,
    <<"T", "2", "R">>, <<"H">>, <<"a", "I">> }

\* 0 to 2 rating symbols
GlueMarks ==
  { <<>>, <<"@">>, <<"o">>, <<"@", "@">>, <<"@", "o">>, <<"o", "@">>,
    <<"*", "^">> }

\* the entry as one line, and as a number line, a name line, a symbols line
glued_lines(n, w, m) == <<GlueHeader, n \o w \o m>>
split_lines(n, w, m) ==
  <<GlueHeader, n, w>> \o (IF m = <<>> THEN <<>> ELSE <<m>>)

\* the variables of the other specifications
beside_glue == <<twice, norm, query, split, hook_vars>>

InitGlue ==
  /\ races = St0.races
  /\ current_r = St0.current_r
  /\ pending_no = St0.pending_no
  /\ pending_name_parts = St0.pending_name_parts
  /\ pending_marks = St0.pending_marks
  /\ line = <<>>
  /\ idx = 0
  /\ pc = "loop"
  /\ seen_marks = <<>>
  /\ voided = {}
  /\ reopened = {}
  /\ prev = St0
  /\ glue \in [pc : {"start"}, n : GlueNumbers, w : GlueNames, m : GlueMarks,
               glued : {St0}, split : {St0}]
  /\ twice = NoTwice
  /\ norm = NoNorm
  /\ query = NoQuery
  /\ split = NoSplit
  /\ HookIdle

\* parse the glued form
ParseGlued ==
  /\ glue.pc \in {"start", "split"}
  /\ glue' = [glue EXCEPT
                !.glued = parse_lines(glued_lines(glue.n, glue.w, glue.m)),
                !.pc = IF glue.pc = "start" THEN "glued" ELSE "both"]
  /\ UNCHANGED <<locals, line, idx, pc, seen_marks, voided, reopened, prev>>
  /\ UNCHANGED beside_glue

\* parse the split form
ParseSplit ==
  /\ glue.pc \in {"start", "glued"}
  /\ glue' = [glue EXCEPT
                !.split = parse_lines(split_lines(glue.n, glue.w, glue.m)),
                !.pc = IF glue.pc = "start" THEN "split" ELSE "both"]
  /\ UNCHANGED <<locals, line, idx, pc, seen_marks, voided, reopened, prev>>
  /\ UNCHANGED beside_glue

NextGlue ==
  \/ ParseGlued
  \/ ParseSplit

SpecGlue == InitGlue /\ [][NextGlue]_vars

\* ------------------------------------- one document, parsed repeatedly
\* length of the documents that are parsed repeatedly
MaxDocLen == 2

\* the documents: every sequence of at most MaxDocLen lines
Docs == UNION { [1..n -> Lines] : n \in 0..MaxDocLen }

\* what the process parsed before
EarlierDocs ==
  { <<>>,
    << <<"T", "1", "R">>, <<"7", "a", "@">> >>,
    << <<"T", " ", "0", "2", "R">>, <<"5">>, <<"a">> >> }

\* parse_entry with a table that outlives the call
parse_entry_KeepRaces(s) == [St0 EXCEPT !.races = s.races]

\* races = {}; current_r = None; pending_no = None; pending_name_parts = [];
\* pending_marks = []: the locals a call starts with, whatever the last call
\* left in s
parse_entry(s) == St0

\* the document the current call parses: run 0 is the earlier parse
TwiceDoc == IF twice.run = 0 THEN twice.before ELSE twice.doc

\* the variables of the other specifications
beside_twice == <<glue, norm, query, split, hook_vars>>

InitTwice ==
  /\ races = St0.races
  /\ current_r = St0.current_r
  /\ pending_no = St0.pending_no
  /\ pending_name_parts = St0.pending_name_parts
  /\ pending_marks = St0.pending_marks
  /\ line = <<>>
  /\ idx = 0
  /\ pc = "loop"
  /\ seen_marks = <<>>
  /\ voided = {}
  /\ reopened = {}
  /\ prev = St0
  /\ glue = NoGlue
  /\ twice \in [run : {0}, before : EarlierDocs, doc : Docs, first : {St0.races}]
  /\ norm = NoNorm
  /\ query = NoQuery
  /\ split = NoSplit
  /\ HookIdle

\* one iteration of the loop of the current call
TwiceStep ==
  /\ pc = "loop"
  /\ idx < Len(TwiceDoc)
  /\ Load(loop_body(St, TwiceDoc[idx + 1]), "loop")
  /\ line' = TwiceDoc[idx + 1]
  /\ idx' = idx + 1
  /\ UNCHANGED <<seen_marks, voided, reopened, prev, twice>>
  /\ UNCHANGED beside_twice

\* the lines of the current call are exhausted: final flush and return
TwiceReturn ==
  /\ pc = "loop"
  /\ idx = Len(TwiceDoc)
  /\ Load(end_of_input(St), "done")
  /\ twice' = IF twice.run = 1
              THEN [twice EXCEPT !.first = end_of_input(St).races]
              ELSE twice
  /\ UNCHANGED <<line, idx, seen_marks, voided, reopened, prev>>
  /\ UNCHANGED beside_twice

\* the next call of parse_analysis_article, in the same process
TwiceCall ==
  /\ pc = "done"
  /\ twice.run < 2
  /\ Load(parse_entry(St), "loop")
  /\ idx' = 0
  /\ twice' = [twice EXCEPT !.run = @ + 1]
  /\ UNCHANGED <<line, seen_marks, voided, reopened, prev>>
  /\ UNCHANGED beside_twice

NextTwice ==
  \/ TwiceStep
  \/ TwiceReturn
  \/ TwiceCall

SpecTwice == InitTwice /\ [][NextTwice]_vars

\* ------------------------------------------------ the normalizer alone
\* length of the raw strings
MaxStrLen == 4

\* characters of raw text: blanks of four kinds, half- and full-width comma
\* and period ("FWPERIOD" is U+FF0E), a letter
RawChars == {" ", "NBSP", "FWSP", "TAB", ",", "FWCOMMA", ".", "FWPERIOD", "a"}

RawStrings == UNION { [1..n -> RawChars] : n \in 0..MaxStrLen }

\* the parser's variables, which the other specifications leave alone
parser_vars == <<locals, line, idx, pc, seen_marks, voided, reopened, prev>>

\* the parser's variables before a parse
ParserIdle ==
  /\ races = St0.races
  /\ current_r = St0.current_r
  /\ pending_no = St0.pending_no
  /\ pending_name_parts = St0.pending_name_parts
  /\ pending_marks = St0.pending_marks
  /\ line = <<>>
  /\ idx = 0
  /\ pc = "loop"
  /\ seen_marks = <<>>
  /\ voided = {}
  /\ reopened = {}
  /\ prev = St0

InitNorm ==
  /\ ParserIdle
  /\ glue = NoGlue
  /\ twice = NoTwice
  /\ norm \in [pc : {"raw"}, s : RawStrings, once : {<<>>}, again : {<<>>}]
  /\ query = NoQuery
  /\ split = NoSplit
  /\ HookIdle

\* normalize_line(s)
NormalizeOnce ==
  /\ norm.pc = "raw"
  /\ norm' = [norm EXCEPT !.once = normalize_line(norm.s), !.pc = "once"]
  /\ UNCHANGED <<parser_vars, glue, twice, query, split, hook_vars>>

\* normalize_line(normalize_line(s))
NormalizeAgain ==
  /\ norm.pc = "once"
  /\ norm' = [norm EXCEPT !.again = normalize_line(norm.once), !.pc = "again"]
  /\ UNCHANGED <<parser_vars, glue, twice, query, split, hook_vars>>

NextNorm ==
  \/ NormalizeOnce
  \/ NormalizeAgain

SpecNorm == InitNorm /\ [][NextNorm]_vars

\* ------------------------------------------------- the queries on a table
\* rows of one race in a queried table
MaxRows == 2

\* race numbers of the queried tables
QueryRaces == {3, 11}

\* a horse name longer than name_w
LongName == <<"a", "b", "c", "d", "e", "f", "g", "h", "i", "j", "k", "l", "m">>

\* records of the queried tables: both columns top, one column top, the
\* tops exchanged, one symbol only, no symbol
QueryRecords ==
  { [no |-> 1, name |-> <<"a">>, win |-> "@", bakusou |-> "@"],
    [no |-> 2, name |-> <<"b">>, win |-> "@", bakusou |-> "o"],
    [no |-> 3, name |-> <<"c">>, win |-> "o", bakusou |-> "@"],
    [no |-> 4, name |-> <<"d">>, win |-> "@", bakusou |-> ""],
    [no |-> 5, name |-> LongName, win |-> "", bakusou |-> ""],
    [no |-> 12, name |-> <<"e">>, win |-> "@", bakusou |-> "@"] }

QueryRows == UNION { [1..n -> QueryRecords] : n \in 0..MaxRows }

\* Dict[int, List[dict]]
QueryTables == UNION { [ks -> QueryRows] : ks \in SUBSET QueryRaces }

\* sorted(keys)
RECURSIVE sorted(_)
sorted(ks) ==
  IF ks = {} THEN <<>>
  ELSE LET m == CHOOSE k \in ks : \A j \in ks : k <= j
       IN <<m>> \o sorted(ks \ {m})

\* races.get(rno, [])
get(t, rno) == IF rno \in DOMAIN t THEN t[rno] ELSE <<>>

\* the test that takes a horse for either top symbol
double_top_Either(r) == r.win = "@" \/ r.bakusou = "@"

\* (r.get("win") == "◎") and (r.get("bakusou") == "◎")
double_top(r) == r.win = "@" /\ r.bakusou = "@"

\* the horses of one race with both top symbols, in the order of the rows
RECURSIVE horses(_)
horses(rows) ==
  IF rows = <<>> THEN <<>>
  ELSE (IF double_top(rows[1])
        THEN <<[no |-> rows[1].no, name |-> rows[1].name]>> ELSE <<>>)
       \o horses(Tail(rows))

\* hit_races of one track, after hit_races.sort(key=race_no)
RECURSIVE hits_of(_, _)
hits_of(t, rnos) ==
  IF rnos = <<>> THEN <<>>
  ELSE (IF horses(t[rnos[1]]) # <<>>
        THEN <<[race_no |-> rnos[1], horses |-> horses(t[rnos[1]])]>>
        ELSE <<>>)
       \o hits_of(t, Tail(rnos))

hit_races(t) == hits_of(t, sorted(DOMAIN t))

\* ------------------------------------------------------------ presentation
\* Texts are sequences of characters; "LF" is the newline, "-" the dash
\* "–", "..." the ellipsis "…", and the fixed phrases of the source are one
\* character each ("TITLE", "NODATA", "NOTFOUND", "SRC", "URL", the table
\* headers "HDR..." and rules "RULE...").

DigitChar(d) ==
  CASE d = 0 -> "0" [] d = 1 -> "1" [] d = 2 -> "2" [] d = 3 -> "3"
    [] d = 4 -> "4" [] d = 5 -> "5" [] d = 6 -> "6" [] d = 7 -> "7"
    [] d = 8 -> "8" [] d = 9 -> "9"

\* str(n) for 0 <= n <= 99
str(n) == IF n < 10 THEN <<DigitChar(n)>>
          ELSE <<DigitChar(n \div 10), DigitChar(n % 10)>>

\* s.zfill(w)
RECURSIVE zfill(_, _)
zfill(s, w) == IF Len(s) >= w THEN s ELSE zfill(<<"0">> \o s, w)

pad2(n) == zfill(str(n), 2)

\* s.ljust(w)
RECURSIVE ljust(_, _)
ljust(s, w) == IF Len(s) >= w THEN s ELSE ljust(s \o <<" ">>, w)

\* "\n".join(items)
RECURSIVE join_lines(_)
join_lines(items) ==
  IF items = <<>> THEN <<>>
  ELSE IF Len(items) = 1 THEN items[1]
  ELSE items[1] \o <<"LF">> \o join_lines(Tail(items))

\* str.strip() of a text of several lines
RECURSIVE text_strip(_)
text_strip(s) ==
  IF s # <<>> /\ s[1] \in Whitespace \cup {"LF"} THEN text_strip(Tail(s))
  ELSE IF s # <<>> /\ s[Len(s)] \in Whitespace \cup {"LF"}
       THEN text_strip(SubSeq(s, 1, Len(s) - 1))
  ELSE s

\* width of the name column
name_w == 12

\* x or "–"
or_dash(x) == IF x = "" THEN "-" ELSE x

\* one row of format_race_table
table_row(r, mode) ==
  LET name == ljust(IF Len(r.name) > name_w
                    THEN Take(r.name, name_w - 1) \o <<"...">>
                    ELSE r.name, 14)
      win == or_dash(r.win)
      bak == or_dash(r.bakusou)
  IN pad2(r.no) \o <<" ", " ">> \o name \o <<" ", " ">> \o
     (IF mode = "win" THEN <<win>>
      ELSE IF mode = "bakusou" THEN <<bak>>
      ELSE <<win, " ", " ", " ", bak>>)

format_race_table(rows, mode) ==
  join_lines(
    (IF mode = "win" THEN << <<"HDR_W">>, <<"RULE1">> >>
     ELSE IF mode = "bakusou" THEN << <<"HDR_B">>, <<"RULE1">> >>
     ELSE << <<"HDR_WB">>, <<"RULE2">> >>)
    \o [i \in 1..Len(rows) |-> table_row(rows[i], mode)])

\* the items of one race in build_all_races_text that also lists the races
\* without rows
RECURSIVE race_items_NoSkip(_, _)
race_items_NoSkip(t, rnos) ==
  IF rnos = <<>> THEN <<>>
  ELSE << <<"[", "T">> \o str(rnos[1]) \o <<"R", "]">>,
          format_race_table(get(t, rnos[1]), "both"),
          <<>> >>
       \o race_items_NoSkip(t, Tail(rnos))

\* the loop of build_all_races_text over sorted(races.keys())
RECURSIVE race_items(_, _)
race_items(t, rnos) ==
  IF rnos = <<>> THEN <<>>
  ELSE (IF get(t, rnos[1]) = <<>> THEN <<>>
        ELSE << <<"[", "T">> \o str(rnos[1]) \o <<"R", "]">>,
                format_race_table(get(t, rnos[1]), "both"),
                <<>> >>)
       \o race_items(t, Tail(rnos))

\* date_ymd is "" for None
build_all_races_text(date_ymd, t) ==
  LET title == <<"T", " ", "TITLE">> \o
               (IF date_ymd # "" THEN <<" ", " ", date_ymd>> ELSE <<>>)
      out == <<title, <<"URL">>, <<>> >> \o race_items(t, sorted(DOMAIN t))
  IN text_strip(join_lines(IF Len(out) <= 3
                           THEN out \o << <<"NODATA">> >>
                           ELSE out))

\* the single-race command; an unknown pick shows both columns
race_reply(t, race_no, pick) ==
  LET rows == get(t, race_no)
      mode == IF pick \in {"win", "bakusou"} THEN pick ELSE "both"
  IN IF rows = <<>>
     THEN <<"T">> \o str(race_no) \o <<"NOTFOUND", "LF", "SRC", "URL">>
     ELSE join_lines(<< <<"T">> \o str(race_no) \o <<"R", "SRC">>,
                        <<"URL">>, <<>> >>)
          \o format_race_table(rows, mode)

\* ------------------------------------------- the queries, as a state machine
\* the tables that differ from t only in that a race without rows is absent
\* in the one and mapped to the empty list in the other (t itself included)
SameButEmpty(t) ==
  { [r \in ks |-> get(t, r)] :
      ks \in { k \in SUBSET QueryRaces :
                \A r \in DOMAIN t : t[r] # <<>> => r \in k } }

\* the variables of the other specifications
beside_query == <<parser_vars, glue, twice, norm, split, hook_vars>>

\* a table `races` and a second one, `other`, that differs from it only in
\* absent / empty races; nothing has been asked yet
InitQuery ==
  /\ ParserIdle
  /\ glue = NoGlue
  /\ twice = NoTwice
  /\ norm = NoNorm
  /\ split = NoSplit
  /\ HookIdle
  /\ \E t \in QueryTables : \E u \in SameButEmpty(t) :
       query = [pc |-> "table", races |-> t, other |-> u,
                date |-> "", race_no |-> None, pick |-> "",
                hits |-> <<>>, text |-> <<>>, other_text |-> <<>>]

\* the double-top query of find_gekiatsu on one track's table
FindGekiatsu ==
  /\ query.pc = "table"
  /\ query' = [query EXCEPT !.pc = "hits", !.hits = hit_races(query.races)]
  /\ UNCHANGED beside_query

\* the "all races" command, on both tables
AllRaces ==
  /\ query.pc = "table"
  /\ \E d \in {"", "D"} :
       query' = [query EXCEPT !.pc = "all", !.date = d,
                   !.text = build_all_races_text(d, query.races),
                   !.other_text = build_all_races_text(d, query.other)]
  /\ UNCHANGED beside_query

\* the single-race command, on both tables
RaceCommand ==
  /\ query.pc = "table"
  /\ \E n \in QueryRaces : \E p \in {"win", "bakusou", "both"} :
       query' = [query EXCEPT !.pc = "race", !.race_no = n, !.pick = p,
                   !.text = race_reply(query.races, n, p),
                   !.other_text = race_reply(query.other, n, p)]
  /\ UNCHANGED beside_query

NextQuery ==
  \/ FindGekiatsu
  \/ AllRaces
  \/ RaceCommand

SpecQuery == InitQuery /\ [][NextQuery]_vars

\* ------------------------------------------------------------- the cache
\* ticks of the clock in one behaviour
MaxTicks == 2

\* CACHE_TTL, in seconds
CACHE_TTL == 5 * 60

\* the venues
TRACKS == <<"Kyoto", "Tokyo">>

\* f"umanari:{track}:{date_ymd or 'latest'}"; date_ymd is "" for None
umanari_key(track, date_ymd) ==
  <<"umanari", track, IF date_ymd = "" THEN "latest" ELSE date_ymd>>

\* cache_get that never lets an entry expire
cache_get_Stale(c, t, key, ttl) ==
  IF key \notin DOMAIN c THEN [cache |-> c, hit |-> FALSE]
  ELSE [cache |-> c, hit |-> TRUE, data |-> c[key][2]]

\* cache_get(key, ttl) on the dict c at time t: the dict afterwards, whether
\* a value is returned, and the value
cache_get(c, t, key, ttl) ==
  IF key \notin DOMAIN c THEN [cache |-> c, hit |-> FALSE]
  ELSE IF t - c[key][1] > ttl THEN [cache |-> pop(c, key), hit |-> FALSE]
  ELSE [cache |-> c, hit |-> TRUE, data |-> c[key][2]]

\* _cache[key] = (time.time(), data)
cache_set(c, t, key, data) ==
  [k \in DOMAIN c \cup {key} |-> IF k = key THEN <<t, data>> ELSE c[k]]

\* What the two fetches of get_umanari come to: find_analysis_url raises
\* on a network failure ("network") or when no article is found
\* ("missing"), parse_analysis_article raises on a network failure; else
\* the article's address and table.
Failures == { [ok |-> FALSE, why |-> w] : w \in {"network", "missing"} }

\* a table with a double top in race 11, and one without
ArticleTables ==
  { [r \in {11} |-> <<[no |-> 1, name |-> <<"a">>, win |-> "@", bakusou |-> "@"]>>],
    [r \in {3} |-> <<[no |-> 2, name |-> <<"b">>, win |-> "@", bakusou |-> "o"]>>] }

Articles ==
  { [ok |-> TRUE, data |-> [article_url |-> "URL", races |-> t]] :
      t \in ArticleTables }

Outcomes == Failures \cup Articles

\* get_umanari(track, date_ymd) on the dict c at time t, when the fetches
\* come to `outcome`: the dict afterwards, whether it raised, the value
\* returned, and the documents it asked the network for
get_umanari(c, t, track, date_ymd, outcome) ==
  LET cache_key == umanari_key(track, date_ymd)
      cached == cache_get(c, t, cache_key, CACHE_TTL)
  IN IF cached.hit
     THEN [cache |-> cached.cache, raised |-> FALSE, data |-> cached.data,
           fetched |-> <<>>]
     ELSE IF ~outcome.ok
     THEN [cache |-> cached.cache, raised |-> TRUE, fetched |-> <<cache_key>>]
     ELSE [cache |-> cache_set(cached.cache, t, cache_key, outcome.data),
           raised |-> FALSE, data |-> outcome.data, fetched |-> <<cache_key>>]

\* ------------------------------------------ the cache, as a state machine
\* the keys looked up
ProbeKeys == {umanari_key(TRACKS[1], "D"), umanari_key(TRACKS[1], "")}

\* the variables of the other specifications
beside_cache == <<parser_vars, glue, twice, norm, query, split, env, hook>>

\* an empty cache at time 0; `probe` records the last operation and its
\* time, the time and data of the last cache_set of each key (None: never
\* set), and the keys that a lookup found expired and that were not set since
InitCache ==
  /\ ParserIdle
  /\ glue = NoGlue
  /\ twice = NoTwice
  /\ norm = NoNorm
  /\ query = NoQuery
  /\ split = NoSplit
  /\ cache = [k \in {} |-> <<>>]
  /\ now = 0
  /\ env = [pc |-> "off"]
  /\ hook = [pc |-> "off"]
  /\ probe = [op |-> "init", key |-> <<>>, ttl |-> 0, at |-> 0, hit |-> FALSE,
              data |-> <<>>, raised |-> FALSE,
              set_at |-> [k \in ProbeKeys |-> None],
              set_data |-> [k \in ProbeKeys |-> <<>>],
              expired |-> {}]

\* the keys found expired, after a lookup of key with ttl
Expired(key, ttl) ==
  IF probe.set_at[key] # None /\ now - probe.set_at[key] > ttl
  THEN probe.expired \cup {key} ELSE probe.expired

\* time passes: exactly the time to live, or one second more
Tick ==
  /\ \E d \in {CACHE_TTL, CACHE_TTL + 1} :
       /\ now + d <= MaxTicks * (CACHE_TTL + 1)
       /\ now' = now + d
  /\ UNCHANGED <<parser_vars, glue, twice, norm, query, split, cache, env, hook,
                 probe>>

\* cache_get(key, ttl), with the default or the tracks' time to live
CacheGet ==
  /\ probe.op # "off"
  /\ \E key \in ProbeKeys : \E ttl \in {CACHE_TTL, 10 * 60} :
       LET g == cache_get(cache, now, key, ttl)
       IN /\ cache' = g.cache
          /\ probe' = [probe EXCEPT !.op = "get", !.key = key, !.ttl = ttl,
                         !.at = now,
                         !.hit = g.hit,
                         !.data = IF g.hit THEN g.data ELSE <<>>,
                         !.raised = FALSE,
                         !.expired = Expired(key, ttl)]
  /\ UNCHANGED <<now, beside_cache>>

\* cache_set(key, data)
CacheSet ==
  /\ probe.op # "off"
  /\ \E key \in ProbeKeys : \E a \in Articles :
       /\ cache' = cache_set(cache, now, key, a.data)
       /\ probe' = [probe EXCEPT !.op = "set", !.key = key,
                      !.raised = FALSE,
                      !.set_at[key] = now, !.set_data[key] = a.data,
                      !.expired = @ \ {key}]
  /\ UNCHANGED <<now, beside_cache>>

\* get_umanari(track, date_ymd): a lookup, and on a miss the fetches and,
\* when they succeed, a cache_set
GetUmanari ==
  /\ probe.op # "off"
  /\ \E d \in {"", "D"} : \E o \in Outcomes :
       LET key == umanari_key(TRACKS[1], d)
           u == get_umanari(cache, now, TRACKS[1], d, o)
           wrote == ~u.raised /\ u.fetched # <<>>
       IN /\ cache' = u.cache
          /\ probe' = [probe EXCEPT !.op = "get_umanari", !.key = key,
                         !.ttl = CACHE_TTL, !.at = now,
                         !.hit = (u.fetched = <<>>),
                         !.data = IF u.raised THEN <<>> ELSE u.data,
                         !.raised = u.raised,
                         !.set_at[key] = IF wrote THEN now ELSE @,
                         !.set_data[key] = IF wrote THEN o.data ELSE @,
                         !.expired = IF wrote THEN Expired(key, CACHE_TTL) \ {key}
                                     ELSE Expired(key, CACHE_TTL)]
  /\ UNCHANGED <<now, beside_cache>>

NextCache ==
  \/ Tick
  \/ CacheGet
  \/ CacheSet
  \/ GetUmanari

SpecCache == InitCache /\ [][NextCache]_vars

\* ------------------------------------------ the double-top command's fetches
\* sub-lists of TRACKS, in the order of TRACKS
TrackLists == { <<>>, <<TRACKS[1]>>, <<TRACKS[2]>>, TRACKS }

\* what the page fetches of detect_tracks_for_date come to: raise_for_status
\* or the connection raises, or the venues found
TrackOutcomes ==
  { [ok |-> FALSE, why |-> "network"] } \cup
  { [ok |-> TRUE, tracks |-> s] : s \in TrackLists }

\* detect_tracks_for_date(date_ymd), for a date that ymd_to_md accepts
detect_tracks_for_date(c, t, date_ymd, outcome) ==
  LET cache_key == <<"tracks_for", date_ymd>>
      cached == cache_get(c, t, cache_key, 10 * 60)
  IN IF cached.hit
     THEN [cache |-> cached.cache, raised |-> FALSE,
           tracks |-> cached.data.tracks, fetched |-> <<>>]
     ELSE IF ~outcome.ok
     THEN [cache |-> cached.cache, raised |-> TRUE, fetched |-> <<cache_key>>]
     ELSE [cache |-> cache_set(cached.cache, t, cache_key,
                               [tracks |-> outcome.tracks]),
           raised |-> FALSE, tracks |-> outcome.tracks,
           fetched |-> <<cache_key>>]

\* the loop of find_gekiatsu over the tracks; outs[tr] is what the fetches
\* for track tr come to.  A get_umanari that raises is skipped.
RECURSIVE gekiatsu_tracks(_, _, _, _, _)
gekiatsu_tracks(c, t, date_ymd, tracks, outs) ==
  IF tracks = <<>>
  THEN [cache |-> c, results |-> <<>>, fetched |-> <<>>, failed |-> {}]
  ELSE LET tr == tracks[1]
           d == get_umanari(c, t, tr, date_ymd, outs[tr])
           hit == IF d.raised THEN <<>> ELSE hit_races(d.data.races)
           rest == gekiatsu_tracks(d.cache, t, date_ymd, Tail(tracks), outs)
       IN [cache |-> rest.cache,
           results |-> (IF hit = <<>> THEN <<>>
                        ELSE <<[track |-> tr,
                                article_url |-> d.data.article_url,
                                races |-> hit]>>) \o rest.results,
           fetched |-> d.fetched \o rest.fetched,
           failed |-> (IF d.raised THEN {umanari_key(tr, date_ymd)} ELSE {})
                      \cup rest.failed]

\* find_gekiatsu(date_ymd): the dict afterwards, whether it raised, the
\* value returned, the documents asked for and those whose fetch failed
find_gekiatsu(c, t, date_ymd, outcome, outs) ==
  LET cache_key == <<"gekiatsu", date_ymd>>
      cached == cache_get(c, t, cache_key, 5 * 60)
      dt == detect_tracks_for_date(cached.cache, t, date_ymd, outcome)
      g == gekiatsu_tracks(dt.cache, t, date_ymd, dt.tracks, outs)
      out == [date |-> date_ymd, tracks |-> g.results]
  IN IF cached.hit
     THEN [cache |-> cached.cache, raised |-> FALSE, data |-> cached.data,
           fetched |-> <<>>, failed |-> {}]
     ELSE IF dt.raised
     THEN [cache |-> dt.cache, raised |-> TRUE, fetched |-> dt.fetched,
           failed |-> {<<"tracks_for", date_ymd>>}]
     ELSE [cache |-> cache_set(g.cache, t, cache_key, out), raised |-> FALSE,
           data |-> out, fetched |-> dt.fetched \o g.fetched,
           failed |-> g.failed]

\* ------------------------------------------------------------- the replies
\* A reply is its kind and what it shows.
\* the generic "取得に失敗しました。Render Logs を確認してください。"
FailedReply == [kind |-> "failed", shows |-> <<>>]

HelpReply == [kind |-> "help", shows |-> <<>>]

\* format_gekiatsu_text: the "none found" text, or the tracks and races
format_gekiatsu_text(g) ==
  [kind |-> IF g.tracks = <<>> THEN "gekiatsu-none" ELSE "gekiatsu",
   shows |-> g.tracks]

\* ------------------------------------------------------------ the commands
\* A message text is a sequence of words; "umanari" is "うまなり",
\* "gekiatsu" 激熱, "all" 全, "today" 今日, "win" 勝率, "bakusou" 爆走.

\* resolve_day_token("今日"), fixed to one date
resolve_day_token(day) == IF day = "today" THEN "D" ELSE ""

NoCmd == [mode |-> "none"]

IsTrack(w) == \E i \in 1..Len(TRACKS) : TRACKS[i] = w

\* the length of the match of \d{1,2} at the start of the words ws
digits_at(ws) ==
  IF Len(ws) >= 2 /\ ws[1] \in Digits /\ ws[2] \in Digits THEN 2
  ELSE IF Len(ws) >= 1 /\ ws[1] \in Digits THEN 1
  ELSE 0

\* the command of a text; a digit is a word of its own
parse_text_command(text) ==
  IF text = <<>> \/ text[1] # "umanari" THEN NoCmd
  ELSE LET args == Tail(text)
           nd == digits_at(Tail(args))
           pick == From(Tail(args), nd + 1)
       IN IF args = <<>> THEN [mode |-> "help"]
          ELSE IF Len(args) = 2 /\ args[1] = "gekiatsu" /\ args[2] = "today"
          THEN [mode |-> "gekiatsu", date |-> resolve_day_token(args[2])]
          ELSE IF args[1] = "all" /\ Len(args) = 2 /\ IsTrack(args[2])
          THEN [mode |-> "all", track |-> args[2], date |-> ""]
          ELSE IF args[1] = "all" /\ Len(args) = 3 /\ IsTrack(args[2])
                  /\ args[3] = "today"
          THEN [mode |-> "all", track |-> args[2],
                date |-> resolve_day_token(args[3])]
          ELSE IF IsTrack(args[1]) /\ nd >= 1
                  /\ (pick = <<>> \/ pick \in {<<"win">>, <<"bakusou">>})
          THEN [mode |-> "race", track |-> args[1],
                race |-> int(Take(Tail(args), nd)),
                pick |-> IF pick = <<>> THEN "both" ELSE pick[1]]
          ELSE [mode |-> "help"]

\* --------------------------------------------------------- the signature
\* base64(HMAC-SHA256(secret, raw_body)), taken to be free of collisions
Mac(secret, raw_body) == <<"mac", secret, raw_body>>

\* verify_line_signature that accepts every signature
verify_line_signature_Any(secret, raw_body, signature) == TRUE

\* verify_line_signature(raw_body, signature), LINE_CHANNEL_SECRET = secret
verify_line_signature(secret, raw_body, signature) ==
  Mac(secret, raw_body) = signature

\* the first lines of webhook: the status it raises, 0 when it goes on
webhook_entry(e, raw_body, signature) ==
  IF e.secret = "" \/ e.token = "" THEN 500
  ELSE IF ~verify_line_signature(e.secret, raw_body, signature) THEN 401
  ELSE 0

\* what the loop of webhook does with an event: "skip" for continue
dispatch(ev) ==
  IF ev.type # "message" THEN "skip"
  ELSE IF ev.message.type # "text" THEN "skip"
  ELSE IF ev.replyToken = "" THEN "skip"
  ELSE IF parse_text_command(ev.message.text) = NoCmd THEN "skip"
  ELSE parse_text_command(ev.message.text).mode

\* whether the loop gets to parse_text_command for the event
reaches_parse(ev) ==
  ev.type = "message" /\ ev.message.type = "text" /\ ev.replyToken # ""

\* ------------------------------------------------------------ the requests
\* requests handled in one behaviour
MaxRequests == 2

TextEvent(text) ==
  [type |-> "message", message |-> [type |-> "text", text |-> text],
   replyToken |-> "r"]

CmdHelp == <<"umanari">>
CmdGekiatsu == <<"umanari", "gekiatsu", "today">>
CmdAll == <<"umanari", "all", TRACKS[1], "today">>
CmdAllLatest == <<"umanari", "all", TRACKS[1]>>
CmdRace == <<"umanari", TRACKS[1], "1", "1">>
CmdRaceWin == <<"umanari", TRACKS[1], "3", "win">>

\* a follow event, a sticker, a text without reply token, a text that is no
\* command, and the commands
Events ==
  { [type |-> "follow", message |-> [type |-> "none", text |-> <<>>],
     replyToken |-> "r"],
    [type |-> "message", message |-> [type |-> "sticker", text |-> <<>>],
     replyToken |-> "r"],
    [type |-> "message", message |-> [type |-> "text", text |-> CmdHelp],
     replyToken |-> ""],
    TextEvent(<<"hello">>),
    TextEvent(CmdHelp),
    TextEvent(<<"umanari", "what">>),
    TextEvent(CmdGekiatsu),
    TextEvent(CmdAll),
    TextEvent(CmdAllLatest),
    TextEvent(CmdRace),
    TextEvent(CmdRaceWin) }

\* payload["events"]: no event, one event, or one of three pairs
Bodies ==
  { <<>> } \cup { <<ev>> : ev \in Events } \cup
  { <<TextEvent(CmdGekiatsu), TextEvent(CmdAll)>>,
    <<TextEvent(CmdAllLatest), TextEvent(CmdRace)>>,
    <<TextEvent(CmdAll), TextEvent(CmdGekiatsu)>> }

\* the x-line-signature header: made with the channel secret "S", with
\* another secret, with the empty secret, for another body, or missing
Signatures(raw_body) ==
  { Mac("S", raw_body), Mac("X", raw_body), Mac("", raw_body),
    Mac("S", <<>>), <<>> }

\* the variables of the other specifications
beside_hook == <<parser_vars, glue, twice, norm, query, split, probe>>

NoEvent == [mode |-> "none", failed |-> {}, fetched |-> <<>>, reply |-> HelpReply]

\* the two environment variables are set or not; no request yet.  Of the
\* request in hand `hook` holds the body and signature, the events still to
\* handle, the status answered (0: none yet), the replies sent, the number
\* of texts parsed, the documents asked for, and the last event handled.
InitHook ==
  /\ ParserIdle
  /\ glue = NoGlue
  /\ twice = NoTwice
  /\ norm = NoNorm
  /\ query = NoQuery
  /\ split = NoSplit
  /\ probe = [op |-> "off"]
  /\ cache = [k \in {} |-> <<>>]
  /\ now = 0
  /\ env \in [secret : {"", "S"}, token : {"", "A"}]
  /\ hook = [pc |-> "idle", n |-> 0, body |-> <<>>, sig |-> <<>>,
             queue |-> <<>>, status |-> 0, replies |-> <<>>, parsed |-> 0,
             fetched |-> <<>>, cache0 |-> cache, last |-> NoEvent]

\* a request arrives and the first lines of webhook come to `status`
Receive(raw_body, signature, status) ==
  /\ hook.pc \in {"idle", "closed"}
  /\ hook.n < MaxRequests
  /\ hook' = [pc |-> IF status = 0 THEN "events" ELSE "closed",
              n |-> hook.n + 1, body |-> raw_body, sig |-> signature,
              queue |-> IF status = 0 THEN raw_body ELSE <<>>,
              status |-> status, replies |-> <<>>, parsed |-> 0,
              fetched |-> <<>>, cache0 |-> cache, last |-> NoEvent]
  /\ UNCHANGED <<cache, now, env, beside_hook>>

\* raise HTTPException(status_code=500, detail="Env vars not set")
RejectEnv ==
  \E raw_body \in Bodies : \E signature \in Signatures(raw_body) :
    webhook_entry(env, raw_body, signature) = 500
      /\ Receive(raw_body, signature, 500)

\* raise HTTPException(status_code=401, detail="Invalid signature")
RejectSignature ==
  \E raw_body \in Bodies : \E signature \in Signatures(raw_body) :
    webhook_entry(env, raw_body, signature) = 401
      /\ Receive(raw_body, signature, 401)

\* the request passes both checks
Accept ==
  \E raw_body \in Bodies : \E signature \in Signatures(raw_body) :
    webhook_entry(env, raw_body, signature) = 0
      /\ Receive(raw_body, signature, 0)

\* the event at the head of the queue has been handled
Handled(mode, res) ==
  LET ev == Head(hook.queue)
  IN /\ cache' = res.cache
     /\ hook' = [hook EXCEPT
                   !.queue = Tail(@),
                   !.parsed = IF reaches_parse(ev) THEN @ + 1 ELSE @,
                   !.replies = IF mode = "skip" THEN @
                               ELSE Append(@, [to |-> ev.replyToken,
                                               reply |-> res.reply]),
                   !.fetched = @ \o res.fetched,
                   !.last = [mode |-> mode, failed |-> res.failed,
                             fetched |-> res.fetched, reply |-> res.reply]]
     /\ UNCHANGED <<now, env, beside_hook>>

AtEvent(mode) ==
  hook.pc = "events" /\ hook.queue # <<>> /\ dispatch(Head(hook.queue)) = mode

\* continue: not a message, not a text, no reply token, or no command
SkipEvent ==
  /\ AtEvent("skip")
  /\ Handled("skip", [cache |-> cache, reply |-> HelpReply,
                      fetched |-> <<>>, failed |-> {}])

\* the usage text
HelpEvent ==
  /\ AtEvent("help")
  /\ Handled("help", [cache |-> cache, reply |-> HelpReply,
                      fetched |-> <<>>, failed |-> {}])

\* the double-top command
GekiatsuEvent ==
  /\ AtEvent("gekiatsu")
  /\ \E o \in TrackOutcomes :
     \E outs \in [{TRACKS[i] : i \in 1..Len(TRACKS)} -> Outcomes] :
       LET cmd == parse_text_command(Head(hook.queue).message.text)
           g == find_gekiatsu(cache, now, cmd.date, o, outs)
       IN Handled("gekiatsu",
                  [cache |-> g.cache,
                   reply |-> IF g.raised THEN FailedReply
                             ELSE format_gekiatsu_text(g.data),
                   fetched |-> g.fetched, failed |-> g.failed])

\* the all-races command
AllEvent ==
  /\ AtEvent("all")
  /\ \E o \in Outcomes :
       LET cmd == parse_text_command(Head(hook.queue).message.text)
           d == get_umanari(cache, now, cmd.track, cmd.date, o)
       IN Handled("all",
                  [cache |-> d.cache,
                   reply |-> IF d.raised THEN FailedReply
                             ELSE [kind |-> "all",
                                   shows |-> build_all_races_text(cmd.date,
                                                                  d.data.races)],
                   fetched |-> d.fetched,
                   failed |-> IF d.raised
                              THEN {umanari_key(cmd.track, cmd.date)} ELSE {}])

\* the single-race command, on the latest article
RaceEvent ==
  /\ AtEvent("race")
  /\ \E o \in Outcomes :
       LET cmd == parse_text_command(Head(hook.queue).message.text)
           d == get_umanari(cache, now, cmd.track, "", o)
       IN Handled("race",
                  [cache |-> d.cache,
                   reply |-> IF d.raised THEN FailedReply
                             ELSE [kind |-> "race",
                                   shows |-> race_reply(d.data.races, cmd.race,
                                                        cmd.pick)],
                   fetched |-> d.fetched,
                   failed |-> IF d.raised
                              THEN {umanari_key(cmd.track, "")} ELSE {}])

\* return Response(content="OK")
Respond ==
  /\ hook.pc = "events"
  /\ hook.queue = <<>>
  /\ hook' = [hook EXCEPT !.pc = "closed", !.status = 200]
  /\ UNCHANGED <<cache, now, env, beside_hook>>

\* time passes between two requests: one second more than the default time
\* to live (an entry of that age has expired)
HookTick ==
  /\ hook.pc \in {"idle", "closed"}
  /\ now + CACHE_TTL + 1 <= MaxTicks * (CACHE_TTL + 1)
  /\ now' = now + CACHE_TTL + 1
  /\ UNCHANGED <<cache, env, hook, beside_hook>>

NextHook ==
  \/ RejectEnv
  \/ RejectSignature
  \/ Accept
  \/ SkipEvent
  \/ HelpEvent
  \/ GekiatsuEvent
  \/ AllEvent
  \/ RaceEvent
  \/ Respond
  \/ HookTick

SpecHook == InitHook /\ [][NextHook]_vars

\* ------------------------------------------------------- the splitter
\* length of the texts split
MaxTextLen == 5

\* the greatest max_len
MaxChunk == 3

\* characters of a text: two letters, a blank, the newline
TextChars == {"a", "b", " ", "LF"}

Texts == UNION { [1..n -> TextChars] : n \in 0..MaxTextLen }

\* text.split("\n")
RECURSIVE split_nl(_)
split_nl(text) ==
  IF ~Contains(text, "LF") THEN <<text>>
  ELSE LET i == CHOOSE k \in 1..Len(text) :
                  text[k] = "LF" /\ \A j \in 1..(k - 1) : text[j] # "LF"
       IN <<Take(text, i - 1)>> \o split_nl(From(text, i + 1))

\* "".join(buf)
RECURSIVE concat(_)
concat(buf) == IF buf = <<>> THEN <<>> ELSE buf[1] \o concat(Tail(buf))

\* str.rstrip() of a text of several lines
RECURSIVE text_rstrip(_)
text_rstrip(s) ==
  IF s # <<>> /\ s[Len(s)] \in Whitespace \cup {"LF"}
  THEN text_rstrip(SubSeq(s, 1, Len(s) - 1))
  ELSE s

\* the loop of split_for_line over the lines still to read, and the final
\* flush of the buffer
RECURSIVE split_loop(_, _, _, _, _)
split_loop(lines, parts, buf, buf_len, max_len) ==
  IF lines = <<>>
  THEN (IF buf # <<>> THEN Append(parts, text_rstrip(concat(buf))) ELSE parts)
  ELSE LET add == lines[1] \o <<"LF">>
           full == buf_len + Len(add) > max_len /\ buf # <<>>
           parts1 == IF full THEN Append(parts, text_rstrip(concat(buf)))
                     ELSE parts
           buf1 == IF full THEN <<>> ELSE buf
           buf_len1 == IF full THEN 0 ELSE buf_len
       IN split_loop(Tail(lines), parts1, Append(buf1, add),
                     buf_len1 + Len(add), max_len)

split_for_line(text, max_len) ==
  IF Len(text) <= max_len THEN <<text>>
  ELSE split_loop(split_nl(text), <<>>, <<>>, 0, max_len)

\* the variables of the other specifications
beside_split == <<parser_vars, glue, twice, norm, query, hook_vars>>

\* a text and a max_len of at least 1
InitSplit ==
  /\ ParserIdle
  /\ glue = NoGlue
  /\ twice = NoTwice
  /\ norm = NoNorm
  /\ query = NoQuery
  /\ HookIdle
  /\ split \in [pc : {"text"}, text : Texts, max_len : 1..MaxChunk,
                chunks : {<<>>}]

\* chunks = split_for_line(text, max_len)
SplitForLine ==
  /\ split.pc = "text"
  /\ split' = [split EXCEPT !.pc = "chunks",
                 !.chunks = split_for_line(split.text, split.max_len)]
  /\ UNCHANGED beside_split

NextSplit == SplitForLine

SpecSplit == InitSplit /\ [][NextSplit]_vars

\* ------------------------------------------------------------- properties
\* the step reads a line (one iteration of the loop)
ReadStep == pc = "loop" /\ idx' = idx + 1

\* the step before this state read a line
WasRead == pc = "loop" /\ idx > 0

\* all records of the table
Records == UNION { {races[r][i] : i \in 1..Len(races[r])} : r \in DOMAIN races }

\* the i-th symbol of ms, "" when there is none
MarkAt(ms, i) == IF Len(ms) >= i THEN ms[i] ELSE ""

\* C1: every record of the table has a non-empty name and an integer number:
\* no flush appends a record with an empty name or without a number.
C1_RecordsComplete ==
  \A rec \in Records : rec.name # <<>> /\ rec.no \in Nat

\* a number-bearing line flushed a pending number that had no name: nothing
\* was appended, and the table holds records of earlier flushes
C1_Witness ==
  /\ WasRead
  /\ prev.current_r # None
  /\ prev.pending_no # None /\ prev.pending_name_parts = <<>>
  /\ num_rest_match(line) /\ ~Contains(line, "I")
  /\ races = prev.races
  /\ Records # {}

\* C2 (as amended): a race voided right after its header is absent from the
\* table, in every later state and at the end of input, unless a later section
\* header for that race has opened it again.
C2_VoidedAbsentUnlessReopened ==
  \A n \in voided \ reopened : n \notin DOMAIN races

C2_Witness ==
  /\ pc = "done"
  /\ voided \ reopened # {}
  /\ Records # {}

\* C2 (as claimed): a race voided right after its header is absent from the
\* final table, whatever lines follow.
C2_VoidedAbsentWhateverFollows ==
  pc = "done" => \A n \in voided : n \notin DOMAIN races

\* the effect a section-void has on the locals
VoidEffect ==
  /\ current_r' = None
  /\ pending_no' = None
  /\ pending_name_parts' = <<>>
  /\ pending_marks' = <<>>
  /\ current_r \notin DOMAIN races'

\* C3 (as amended): when a line that contains the insufficiency phrase and is
\* not a section header is read while a section is open, then afterwards no
\* section is open, the pending buffer is empty and the race is not a key of
\* the table.
C3_VoidClosesAndDrops ==
  [][(ReadStep /\ current_r # None /\ Contains(line', "I") /\ ~sec_match(line'))
       => VoidEffect]_vars

C3_Witness ==
  /\ WasRead
  /\ Contains(line, "I") /\ ~sec_match(line)
  /\ prev.current_r # None
  /\ prev.races[prev.current_r] # <<>>
  /\ prev.pending_no # None
  /\ DOMAIN races # {}

\* C3 (as claimed): when any line that contains the insufficiency phrase is
\* read while a section is open, the section is closed and dropped.
C3_AnyPhraseLineVoids ==
  [][(ReadStep /\ current_r # None /\ Contains(line', "I")) => VoidEffect]_vars

\* C4: the record a flush appends has the first rating symbol of its lines as
\* win and the second as bakusou ("" where there is none), whichever lines the
\* symbols came on.
C4_MarkOrder ==
  [][\A r \in DOMAIN races \cap DOMAIN races' :
        Len(races'[r]) > Len(races[r]) =>
          /\ races'[r][Len(races'[r])].win = MarkAt(seen_marks, 1)
          /\ races'[r][Len(races'[r])].bakusou = MarkAt(seen_marks, 2)]_vars

\* record 7 got "@" on its number line and "o" from a later line; another
\* record has one symbol only
C4_Witness ==
  /\ \E rec \in Records : rec.no = 7 /\ rec.win = "@" /\ rec.bakusou = "o"
  /\ \E rec \in Records : rec.win # "" /\ rec.bakusou = ""

\* the table with exactly the record of the entry in race 1
GlueExpected ==
  [r \in {sec_group1(GlueHeader)} |->
     << [no |-> int(glue.n), name |-> glue.w,
         win |-> MarkAt(glue.m, 1), bakusou |-> MarkAt(glue.m, 2)] >>]

\* the name is not itself a section header, the column header or a line with
\* the insufficiency phrase
PlainName(w) == ~sec_match(w) /\ w # <<"H">> /\ ~Contains(w, "I")

\* C5 (as amended): for a name that is not itself a section header line, the
\* column header phrase or a text with the insufficiency phrase, the glued
\* line and the split lines give the same table, holding exactly the record
\* {no: n, name: w, win: m[0] or "", bakusou: m[1] or ""}.
C5_GluedEqualsSplit ==
  (glue.pc = "both" /\ PlainName(glue.w)) =>
     /\ ~glue.glued.raised /\ ~glue.split.raised
     /\ glue.glued.races = glue.split.races
     /\ glue.glued.races = GlueExpected

C5_Witness ==
  /\ glue.pc = "both"
  /\ glue.n = <<"0", "7">> /\ glue.w = <<"a", " ", "b">> /\ glue.m = <<"o", "@">>
  /\ glue.split.races = GlueExpected

\* C5 (as claimed): for every name without a rating symbol that does not start
\* with a digit or a comma, the glued line and the split lines give the same
\* record.
C5_GluedEqualsSplitAnyName ==
  glue.pc = "both" =>
     /\ glue.glued.races = glue.split.races
     /\ glue.glued.races = GlueExpected

\* the step reads a symbols-only or a mixed line for the pending record
MarksStep ==
  ReadStep /\ Branch(St, line') \in {"marks", "mixed"}

\* C6: the pending marks are never more than two and are the first two
\* symbols of the record's lines; once two are held, a line with further
\* symbols leaves them as they are, adds only its symbol-free text to the name
\* fragments, and raises nothing.
C6_TwoMarksKept ==
  /\ [](Len(pending_marks) <= 2 /\ pending_marks = Take(seen_marks, 2))
  /\ [][(MarksStep /\ Len(pending_marks) = 2) =>
          /\ pending_marks' = pending_marks
          /\ pending_name_parts' =
               IF strip(without_marks(line')) = <<>> THEN pending_name_parts
               ELSE Append(pending_name_parts, strip(without_marks(line')))
          /\ pc' = "loop"]_vars

\* a third symbol arrived on a later line of a record that has a name
C6_Witness ==
  /\ WasRead
  /\ Len(seen_marks) >= 3 /\ Len(pending_marks) = 2
  /\ Len(prev.pending_marks) = 2
  /\ extract_marks_from_text(line) # <<>>
  /\ pending_name_parts # <<>>

\* the record the pending buffer stands for
PendingRec ==
  [no |-> pending_no, name |-> normalize_line(join(pending_name_parts)),
   win |-> MarkAt(pending_marks, 1), bakusou |-> MarkAt(pending_marks, 2)]

\* the pending buffer has a number and a non-empty name
PendingComplete == pending_no # None /\ pending_name_parts # <<>>

\* s is a prefix of t
IsPrefix(s, t) == Len(s) <= Len(t) /\ SubSeq(t, 1, Len(s)) = s

\* C7: a section header for race M read while section N is open appends the
\* pending record (if it has a number and a name) to race N's list, not race
\* M's, and then opens M; records race M already has are kept, and whatever
\* is appended to a race is appended after the records it has.
C7_HeaderFlushesIntoOpenSection ==
  [][/\ (ReadStep /\ sec_match(line') /\ current_r # None) =>
          /\ races'[current_r] =
               IF PendingComplete THEN Append(races[current_r], PendingRec)
               ELSE races[current_r]
          /\ \A r \in DOMAIN races \ {current_r} : races'[r] = races[r]
          /\ sec_group1(line') \notin DOMAIN races =>
               races'[sec_group1(line')] = <<>>
          /\ DOMAIN races' = DOMAIN races \cup {sec_group1(line')}
          /\ current_r' = sec_group1(line')
          /\ pending_no' = None
     /\ \A r \in DOMAIN races \cap DOMAIN races' : IsPrefix(races[r], races'[r])
    ]_vars

\* a header re-opened a race that has records, while another section was
\* open with a complete pending record
C7_Witness ==
  /\ WasRead /\ sec_match(line)
  /\ prev.current_r # None /\ prev.current_r # current_r
  /\ prev.pending_no # None /\ prev.pending_name_parts # <<>>
  /\ Len(races[prev.current_r]) = Len(prev.races[prev.current_r]) + 1
  /\ races[current_r] # <<>>

\* the number of records of a table
RECURSIVE CountRecords(_)
CountRecords(rs) ==
  IF DOMAIN rs = {} THEN 0
  ELSE LET r == CHOOSE x \in DOMAIN rs : TRUE
       IN Len(rs[r]) + CountRecords([x \in DOMAIN rs \ {r} |-> rs[x]])

\* the step is one of the three that end a record: a number-bearing line, a
\* section header, the end of input
FlushStep ==
  \/ ReadStep /\ Branch(St, line') \in {"section", "number", "numrest"}
  \/ pc = "loop" /\ pc' = "done"

\* the step voids the open section
VoidStep == ReadStep /\ Branch(St, line') = "void"

\* C8: a pending record with a number and a name fragment is appended, once,
\* to the list of the open section by the next number-bearing line, section
\* header or end of input; every other line except a void keeps it pending in
\* the same section; and nothing else adds a record to the table.
C8_EmittedExactlyOnce ==
  [][/\ (PendingComplete /\ FlushStep) =>
          /\ races'[current_r] = Append(races[current_r], PendingRec)
          /\ \A r \in DOMAIN races \ {current_r} : races'[r] = races[r]
          /\ CountRecords(races') = CountRecords(races) + 1
     /\ (PendingComplete /\ ~FlushStep /\ ~VoidStep) =>
          /\ races' = races
          /\ current_r' = current_r
          /\ pending_no' = pending_no
          /\ IsPrefix(pending_name_parts, pending_name_parts')
     /\ CountRecords(races') > CountRecords(races) =>
          PendingComplete /\ FlushStep
    ]_vars

\* the end of input emitted the last record, after a number line emitted
\* another one
C8_Witness ==
  /\ pc = "done"
  /\ prev.pending_no # None /\ prev.pending_name_parts # <<>>
  /\ prev.current_r # None
  /\ Len(races[prev.current_r]) >= 2
  /\ Len(prev.races[prev.current_r]) = Len(races[prev.current_r]) - 1

\* C9: while no section is open, a line that is not a section header leaves
\* the table, the open-section marker and the pending buffer as they are.
C9_ClosedLinesIgnored ==
  [][(ReadStep /\ current_r = None /\ ~sec_match(line')) =>
        UNCHANGED locals]_vars

\* a number-bearing line and the marker were read after a void closed the
\* section, with another race in the table
C9_Witness ==
  /\ WasRead
  /\ prev.current_r = None /\ current_r = None
  /\ Contains(line, "I") /\ num_rest_match(line)
  /\ DOMAIN races # {}

\* C10: no step raises: the loop body and the final flush are defined in
\* every reachable state, the final flush never finds the open race missing
\* from the table, and the run ends with a table.
C10_NoErrorState ==
  /\ pc # "raised"
  /\ pc = "loop" => ~end_of_input(St).raised
  /\ pc = "loop" => \A l \in Lines : ~loop_body(St, l).raised
  /\ pc = "done" => \A r \in DOMAIN races : races[r] \in Seq(Records)

\* the run returned a table after a void and a later flush
C10_Witness ==
  /\ pc = "done"
  /\ idx = MaxLines
  /\ Contains(line, "@")
  /\ voided # {}
  /\ Records # {}

\* C18: a step never changes or reorders the records a race has: the list
\* of every race that stays in the table keeps its records as a prefix, new
\* ones coming after them; a race leaves the table only as the open section
\* of a void, which leaves the other races as they are.
C18_RecordsImmutable ==
  [][\A r \in DOMAIN races :
        IF r \in DOMAIN races' THEN IsPrefix(races[r], races'[r])
        ELSE /\ VoidStep
             /\ r = current_r
             /\ \A q \in DOMAIN races \ {r} :
                   q \in DOMAIN races' /\ races'[q] = races[q]]_vars

\* a race holds two records in the order they were flushed, which is not the
\* order of their numbers
C18_Witness ==
  \E r \in DOMAIN races :
     /\ Len(races[r]) >= 2
     /\ races[r][1].no > races[r][2].no
     /\ r \in DOMAIN prev.races /\ Len(prev.races[r]) = 1

\* C19: with no section open the pending buffer is empty; with no pending
\* number the name fragments and the marks are empty; an open section is a
\* key of the table.
C19_LocalsConsistent ==
  /\ current_r = None =>
       pending_no = None /\ pending_name_parts = <<>> /\ pending_marks = <<>>
  /\ pending_no = None => pending_name_parts = <<>> /\ pending_marks = <<>>
  /\ current_r # None => current_r \in DOMAIN races

\* a section header flushed a buffer that held a name and symbols and opened
\* its section
C19_Witness ==
  /\ WasRead
  /\ current_r # None /\ pending_no = None
  /\ prev.pending_name_parts # <<>> /\ prev.pending_marks # <<>>
  /\ Records # {}

\* C11: the second parse of a document returns the table the first parse of
\* it returned, whatever the process parsed before.
C11_SameTableTwice ==
  (twice.run = 2 /\ pc = "done") => races = twice.first

\* the second parse returned a table with a record, after an earlier parse of
\* another document that also left a record
C11_Witness ==
  /\ twice.run = 2 /\ pc = "done"
  /\ Records # {}
  /\ twice.before # <<>>
  /\ parse_lines(twice.before).races # races

\* how often the character ch occurs in s
Count(s, ch) == Cardinality({i \in 1..Len(s) : s[i] = ch})

\* no two adjacent whitespace characters, none at either end
SingleSpaced(s) ==
  /\ \A i \in 1..Len(s) - 1 : ~(s[i] \in Whitespace /\ s[i + 1] \in Whitespace)
  /\ s # <<>> => s[1] \notin Whitespace /\ s[Len(s)] \notin Whitespace

\* C12: normalize_line applied to its own result gives that result again, and
\* the result has no two adjacent whitespace characters and no whitespace at
\* either end.
C12_NormalizeIdempotent ==
  /\ norm.pc \in {"once", "again"} => SingleSpaced(norm.once)
  /\ norm.pc = "again" => norm.again = norm.once

\* a string with a run of blanks of two kinds inside
C12_Witness ==
  /\ norm.pc = "again"
  /\ norm.s = <<"a", "NBSP", "TAB", "a">>
  /\ norm.again = <<"a", " ", "a">>

\* C13: the result of normalize_line has no non-breaking space, no full-width
\* space, no full-width comma and no full-width period; every full-width
\* comma and period of the input is there as its half-width equivalent.
C13_FullWidthMapped ==
  norm.pc \in {"once", "again"} =>
     /\ \A ch \in {"NBSP", "FWSP", "FWCOMMA", "FWPERIOD"} : ~Contains(norm.once, ch)
     /\ Count(norm.once, ",") = Count(norm.s, ",") + Count(norm.s, "FWCOMMA")
     /\ Count(norm.once, ".") = Count(norm.s, ".") + Count(norm.s, "FWPERIOD")

\* --- C14 ---------------------------------------------------------------
\* a record with the top symbol in both columns
BothTop(r) == r.win = "@" /\ r.bakusou = "@"

\* the number and name of a record
Horse(r) == [no |-> r.no, name |-> r.name]

\* the horses a returned race must list: its records with both top symbols
TopHorses(rows) ==
  LET sel == SelectSeq(rows, BothTop)
  IN [i \in 1..Len(sel) |-> Horse(sel[i])]

\* C14: the double-top query returns a race exactly when one single record
\* of that race has the top symbol in both columns (never for two tops on
\* different records or a top in one column only), each race once and in
\* the order of the race numbers, and the horses listed for a returned race
\* are exactly those records, in the order of the rows.
C14_DoubleTopExact ==
  query.pc = "hits" =>
    /\ \A r \in QueryRaces :
         (\E i \in 1..Len(query.hits) : query.hits[i].race_no = r)
           <=> (r \in DOMAIN query.races /\
                \E j \in 1..Len(query.races[r]) : BothTop(query.races[r][j]))
    /\ \A i \in 1..Len(query.hits) :
         /\ query.hits[i].race_no \in DOMAIN query.races
         /\ query.hits[i].horses = TopHorses(query.races[query.hits[i].race_no])
         /\ \A j \in 1..Len(query.hits) :
              i < j => query.hits[i].race_no < query.hits[j].race_no

\* race 11 has a record with both tops, race 3 has the two tops on two
\* different records: only race 11 is returned, with that one horse
C14_Witness ==
  /\ query.pc = "hits"
  /\ DOMAIN query.races = {3, 11}
  /\ query.races[11] = <<[no |-> 2, name |-> <<"b">>, win |-> "@", bakusou |-> "o"],
                         [no |-> 1, name |-> <<"a">>, win |-> "@", bakusou |-> "@"]>>
  /\ query.races[3] = <<[no |-> 2, name |-> <<"b">>, win |-> "@", bakusou |-> "o"],
                        [no |-> 3, name |-> <<"c">>, win |-> "o", bakusou |-> "@"]>>
  /\ query.hits = <<[race_no |-> 11,
                     horses |-> <<[no |-> 1, name |-> <<"a">>]>>]>>

\* --- C15 ---------------------------------------------------------------
\* C15: two tables that differ only in that a race is absent in the one and
\* mapped to the empty list in the other give the same "all races" text and
\* the same single-race reply, and the single-race reply for a race without
\* rows is the 'data not found' message.
C15_AbsentLikeEmpty ==
  /\ query.pc \in {"all", "race"} => query.text = query.other_text
  /\ (query.pc = "race" /\ get(query.races, query.race_no) = <<>>) =>
        /\ query.text = <<"T">> \o str(query.race_no)
                          \o <<"NOTFOUND", "LF", "SRC", "URL">>
        /\ query.other_text = query.text

\* race 3 is mapped to the empty list in one table and absent in the other,
\* race 11 has a row: the "all races" text shows race 11 only, twice the same
C15_Witness ==
  /\ query.pc = "all"
  /\ DOMAIN query.races = {3, 11}
  /\ query.races[3] = <<>>
  /\ DOMAIN query.other = {11}
  /\ query.races[11] # <<>>
  /\ Contains(query.text, "HDR_WB")
  /\ query.text = query.other_text

\* --- C17 ---------------------------------------------------------------
\* the last operation looked a key up
LookedUp == probe.op \in {"get", "get_umanari"}

\* at the last lookup, the seconds since the last cache_set of its key
Age == probe.at - probe.set_at[probe.key]

\* a step of get_umanari that raises: a failed fetch
FailedFetch == probe'.op = "get_umanari" /\ probe'.raised /\ probe' # probe

\* C17: a lookup that returns a value returns the value of the last
\* cache_set of that key, which happened at most ttl seconds earlier; a
\* lookup more than ttl seconds after the last cache_set returns nothing and
\* leaves the key out of the cache; a key once found expired stays out of
\* the cache, and lookups of it return nothing, until its next cache_set;
\* and a get_umanari that fails adds no entry and changes none.
C17_CacheTimeToLive ==
  /\ [](/\ (LookedUp /\ probe.hit) =>
              /\ probe.set_at[probe.key] # None
              /\ Age <= probe.ttl
              /\ probe.data = probe.set_data[probe.key]
        /\ (LookedUp /\ probe.set_at[probe.key] # None /\ Age > probe.ttl) =>
              ~probe.hit /\ probe.key \notin DOMAIN cache
        /\ probe.op # "off" =>
              \A k \in probe.expired : k \notin DOMAIN cache
        /\ (LookedUp /\ probe.key \in probe.expired) => ~probe.hit)
  /\ [][FailedFetch =>
          \A k \in DOMAIN cache' : k \in DOMAIN cache /\ cache'[k] = cache[k]]_vars

\* an entry set at time 0 is looked up 301 seconds later with the default
\* time to live: nothing is returned and the entry is gone
C17_Witness ==
  /\ probe.op = "get"
  /\ probe.key = umanari_key(TRACKS[1], "D")
  /\ probe.ttl = CACHE_TTL
  /\ probe.set_at[probe.key] = 0
  /\ probe.at = CACHE_TTL + 1
  /\ ~probe.hit
  /\ probe.key \in probe.expired
  /\ probe.key \notin DOMAIN cache

\* --- C16 ---------------------------------------------------------------
\* how often document k was asked for
Asked(fetched, k) == Cardinality({i \in 1..Len(fetched) : fetched[i] = k})

\* C16: when a fetch fails while a gekiatsu, all or race command is
\* handled, the reply to that command is the generic 'retrieval failed'
\* text, and the document whose fetch failed was asked for once only.
C16_FailureAnswered ==
  (hook.pc # "off" /\ hook.last.mode \in {"gekiatsu", "all", "race"}
     /\ hook.last.failed # {}) =>
       /\ hook.last.reply = FailedReply
       /\ \A k \in hook.last.failed : Asked(hook.last.fetched, k) = 1

\* --- C20 ---------------------------------------------------------------
\* one of the two environment variables is unset
EnvUnset == env.secret = "" \/ env.token = ""

\* the signature of the request in hand is not the one made with the
\* channel secret for its body
BadSignature == hook.sig # Mac(env.secret, hook.body)

\* C20: a request that arrives while the channel secret or the access token
\* is unset is answered 500, one whose signature does not verify is answered
\* 401, and in both cases no text is parsed, no document is asked for, the
\* cache stays as it was when the request arrived, and no reply is sent.
C20_RejectedBeforeEvents ==
  (hook.pc # "off" /\ hook.n > 0 /\ (EnvUnset \/ BadSignature)) =>
     /\ hook.status = IF EnvUnset THEN 500 ELSE 401
     /\ hook.pc = "closed"
     /\ hook.parsed = 0
     /\ hook.fetched = <<>>
     /\ hook.replies = <<>>
     /\ hook.last = NoEvent
     /\ cache = hook.cache0

\* after a request that filled the cache, a request with two commands and a
\* signature made with another secret is answered 401 and nothing else
C20_Witness ==
  /\ hook.n = 2
  /\ hook.status = 401
  /\ hook.body = <<TextEvent(CmdGekiatsu), TextEvent(CmdAll)>>
  /\ hook.sig = Mac("X", hook.body)
  /\ hook.replies = <<>>
  /\ hook.fetched = <<>>
  /\ umanari_key(TRACKS[1], "D") \in DOMAIN cache
  /\ cache = hook.cache0

\* --- C21 ---------------------------------------------------------------
\* the lines of the chunks, chunk after chunk
RECURSIVE chunk_lines(_)
chunk_lines(chunks) ==
  IF chunks = <<>> THEN <<>>
  ELSE split_nl(chunks[1]) \o chunk_lines(Tail(chunks))

\* C21: every chunk returned by split_for_line is at most max_len long, no
\* chunk is empty when the text is not empty, and the lines of the chunks,
\* taken in order, are the lines of the text, none lost or duplicated.
C21_ChunksBoundedAndComplete ==
  split.pc = "chunks" =>
    /\ \A i \in 1..Len(split.chunks) : Len(split.chunks[i]) <= split.max_len
    /\ split.text # <<>> =>
         \A i \in 1..Len(split.chunks) : split.chunks[i] # <<>>
    /\ chunk_lines(split.chunks) = split_nl(split.text)

====
